---------------------------- MODULE Spec2Model ----------------------------
(* A state-machine model of src/instagram_data_pipeline.py: the extraction  *)
(* pass get_and_save_instagram_data, the asset materializer download_images *)
(* and the analysis pass analyze_suggest_and_save_instagram, running one    *)
(* after another against one document store.                                *)
(*                                                                          *)
(* Conventions.  Python's None is the empty tuple <<>> and a present value  *)
(* x is <<x>> (Some(x)).  Time is counted in whole days.  A document is a   *)
(* record; a collection is the sequence of its documents in natural         *)
(* (insertion) order.  An image reference is <<media id, k>> and a comment  *)
(* is <<media id, k>>.                                                      *)
(*                                                                          *)
(* The collaborators fail nondeterministically where the code calls them:   *)
(* the profile lookup, the listings of posts, sidecar nodes, comments and   *)
(* stories, every update_one, every image fetch and every generate_content  *)
(* call; at most MaxFaults of them fail in one behaviour.  The reads        *)
(* find_one and find, genai.configure and the Instaloader constructor are   *)
(* taken to succeed.  A generate_content result is "text", an error marker  *)
(* "Error: {e}" is "Error".                                                 *)
EXTENDS Integers, Sequences, FiniteSets, TLC

(***************************************************************************)
(* Program constants (src/instagram_data_pipeline.py:38-42).               *)
(***************************************************************************)
MAX_POSTS_ANALYSIS == 9

MAX_DAYS_ANALYSIS == 15

MAX_IMAGES_ACCOUNT_PROMPT == 5

MAX_IMAGES_POST_PROMPT == 3

MAX_COMMENTS_ANALYSIS == 50

(***************************************************************************)
(* Bounds of the model.                                                    *)
(***************************************************************************)
\* post dates are the days 0..MaxDate
MaxDate == 1

\* longest list of stored posts the selector is run on (beyond the floor)
MaxSelLen == 11

\* posts of a small source profile
MaxSrcPosts == 1

\* comments of a carousel post
MaxComments == 2

\* story items of the source profile
MaxStories == 1

\* collaborator failures injected in one behaviour
MaxFaults == 1

\* passes run one after another against the store
MaxRuns == 2

(***************************************************************************)
(* Values.                                                                 *)
(***************************************************************************)
None == <<>>

Some(x) == <<x>>

Min(a, b) == IF a <= b THEN a ELSE b

Max(a, b) == IF a >= b THEN a ELSE b

\* s[:n]
Take(s, n) == SubSeq(s, 1, Min(n, Len(s)))

Usernames == {"alice"}

Dates == 0..MaxDate

\* datetime.datetime.utcnow(), in days: the window's edge days_ago falls on
\* day 0 or on day 1
Nows == {MAX_DAYS_ANALYSIS, MAX_DAYS_ANALYSIS + 1}

\* analysis_date - timedelta(days=MAX_DAYS_ANALYSIS)
DaysAgo(date) == date - MAX_DAYS_ANALYSIS

(***************************************************************************)
(* The document store (pymongo).                                           *)
(***************************************************************************)
\* {"$set": doc} on the document old
SetFields(old, doc) ==
    [f \in (DOMAIN old) \cup (DOMAIN doc) |->
        IF f \in DOMAIN doc THEN doc[f] ELSE old[f]]

\* the first document of col whose field key equals val, 0 when there is none
FirstMatch(col, key, val) ==
    IF \E i \in 1..Len(col) : col[i][key] = val
    THEN CHOOSE i \in 1..Len(col) :
            /\ col[i][key] = val
            /\ \A j \in 1..(i - 1) : col[j][key] # val
    ELSE 0

\* faulty variant of UpdateOne: an insert, whatever the collection holds
UpdateOneMutInsert(col, key, val, doc) == Append(col, doc)

\* col.update_one({key: val}, {"$set": doc}, upsert=True)
UpdateOne(col, key, val, doc) ==
    LET i == FirstMatch(col, key, val)
    IN  IF i = 0 THEN Append(col, doc)
        ELSE [col EXCEPT ![i] = SetFields(col[i], doc)]

\* col.find_one({key: val})
FindOne(col, key, val) ==
    LET i == FirstMatch(col, key, val)
    IN  IF i = 0 THEN None ELSE Some(col[i])

\* col.find({"account_username": u})
Find(col, u) == SelectSeq(col, LAMBDA d : d.account_username = u)

\* a sorts before b under .sort("date", -1): later dates first, documents
\* without a date last
Before(a, b) ==
    /\ a.date # None
    /\ (b.date = None \/ a.date[1] > b.date[1])

RECURSIVE InsertSorted(_, _)
InsertSorted(s, d) ==
    IF s = <<>> THEN <<d>>
    ELSE IF Before(d, s[1]) THEN <<d>> \o s
    ELSE <<s[1]>> \o InsertSorted(Tail(s), d)

\* cursor.sort("date", -1); documents of equal date keep their natural order
RECURSIVE SortByDateDesc(_)
SortByDateDesc(s) ==
    IF s = <<>> THEN <<>>
    ELSE InsertSorted(SortByDateDesc(SubSeq(s, 1, Len(s) - 1)), s[Len(s)])

(***************************************************************************)
(* The selection loop of the analysis pass (lines 203-210).                *)
(***************************************************************************)
\* faulty variant of InWindow: > for >=
InWindowMutStrict(post, days_ago) == post.date # None /\ post.date[1] > days_ago

\* post.get("date") and post["date"] >= days_ago
InWindow(post, days_ago) == post.date # None /\ post.date[1] >= days_ago

\* faulty variant of UnderFloor: <= for <
UnderFloorMutOffByOne(selected) == Len(selected) <= MAX_POSTS_ANALYSIS

\* len(posts) < MAX_POSTS_ANALYSIS
UnderFloor(selected) == Len(selected) < MAX_POSTS_ANALYSIS

\* faulty variant of AppendPost: posts.insert(0, post)
AppendPostMutPrepend(selected, post) == <<post>> \o selected

\* posts.append(post)
AppendPost(selected, post) == Append(selected, post)

(***************************************************************************)
(* download_images (lines 155-170): fetched is the set of positions of      *)
(* image_urls whose fetch succeeds; each success creates one temporary     *)
(* file, named by its position in files, the files on disk.  A download is *)
(* the record of the loop: the files on disk, local_paths, and the number  *)
(* of references the loop has attempted.                                   *)
(***************************************************************************)
\* faulty variant of FetchOne: a failed fetch leaves a placeholder path
FetchOneMutPlaceholder(st, url, fetched) ==
    IF fetched
    THEN [files |-> Append(st.files, url),
          local_paths |-> Append(st.local_paths, Len(st.files) + 1),
          attempts |-> st.attempts + 1]
    ELSE [st EXCEPT !.local_paths = Append(@, 0), !.attempts = @ + 1]

\* lines 161-169, one turn of "for url in image_urls": the try and its except
FetchOne(st, url, fetched) ==
    IF fetched
    THEN [files |-> Append(st.files, url),
          local_paths |-> Append(st.local_paths, Len(st.files) + 1),
          attempts |-> st.attempts + 1]
    ELSE [st EXCEPT !.attempts = @ + 1]

\* lines 160-170, the loop from position k on
RECURSIVE DownloadLoop(_, _, _, _)
DownloadLoop(st, image_urls, ok, k) ==
    IF k > Len(image_urls) THEN st
    ELSE DownloadLoop(FetchOne(st, image_urls[k], k \in ok), image_urls, ok,
                      k + 1)

\* download_images(image_urls) with files on disk before the call
DownloadImages(files, image_urls, ok) ==
    DownloadLoop([files |-> files, local_paths |-> <<>>, attempts |-> 0],
                 image_urls, ok, 1)

\* the files on disk after the call
DownloadFiles(files, image_urls, ok) == DownloadImages(files, image_urls, ok).files

\* local_paths, the value returned
DownloadPaths(files, image_urls, ok) ==
    DownloadImages(files, image_urls, ok).local_paths

\* what is known of one call: its argument, the positions fetched, and the
\* number of fetches attempted
DownloadRecord(files, image_urls, ok) ==
    [image_urls |-> image_urls, ok |-> ok,
     attempts |-> DownloadImages(files, image_urls, ok).attempts]

\* no call yet
NoDownload == [image_urls |-> <<>>, ok |-> {}, attempts |-> 0]

(***************************************************************************)
(* State.                                                                  *)
(***************************************************************************)
VARIABLES
    accounts_col,      \* db_client[INSTAGRAM_ACCOUNTS_COLLECTION]
    posts_col,         \* db_client[INSTAGRAM_POSTS_COLLECTION]
    stories_col,       \* db_client[INSTAGRAM_STORIES_COLLECTION]
    analysis_col,      \* db_client[INSTAGRAM_ANALYSIS_COLLECTION]
    source,            \* what the profile source (instaloader) serves
    tmp_files,         \* the temporary files on disk, by the image each holds
    pc,                \* position of the running pass
    pass,              \* "none", "extraction" or "analysis"
    username,          \* the pass's username argument
    now,               \* extraction_date / analysis_date
    faults,            \* collaborator failures so far
    runs,              \* passes completed
    outcome,           \* "none", "returned" or "raised": how the pass ended
    events,            \* what has happened in this pass: failures by kind
                       \* ("profile_failed", "upsert_failed", "posts_failed",
                       \* "sidecar_failed", "comments_failed", "stories_failed")
                       \* and "stories", the stories section was entered
    summary,           \* extraction: summary
    posts_added,       \* extraction: posts_added
    post_i,            \* extraction: position of the iterator profile.get_posts()
    post_doc,          \* extraction: post_doc, once built
    story_i,           \* extraction: position of the iterator over story items
    account,           \* analysis: account
    all_posts,         \* analysis: all_posts
    posts,             \* analysis: posts
    sel_i,             \* analysis: position of "for post in all_posts"
    stories,           \* analysis: stories
    local_images,      \* analysis: local_account_images / local_post_images
    cur,               \* analysis: position of "for post in posts" (line 242)
    analysis_report,   \* analysis: analysis_report
    calls,             \* analysis: the model.generate_content calls made
    dl                 \* the latest download_images call

store == <<accounts_col, posts_col, stories_col, analysis_col>>

ctl == <<pc, pass, username, now, faults, runs, outcome, events>>

ext == <<summary, posts_added, post_i, post_doc, story_i>>

ana == <<account, all_posts, posts, sel_i, stories, local_images, cur,
         analysis_report, calls, dl>>

vars == <<store, source, tmp_files, ctl, ext, ana>>

(***************************************************************************)
(* The analysis pass, analyze_suggest_and_save_instagram (lines 174-292).  *)
(***************************************************************************)
\* lines 185-192
NewReport(u, t) ==
    [username |-> u, analysis_date |-> t, account_level |-> None,
     content_level |-> <<>>, comment_level |-> None]

\* lines 185-203: the report, find_one, find().sort()
AnalysisLoad(u, t) ==
    /\ pc = "idle"
    /\ runs < MaxRuns
    /\ t >= now
    /\ pass' = "analysis"
    /\ username' = u
    /\ now' = t
    /\ analysis_report' = NewReport(u, t)
    /\ account' = FindOne(accounts_col, "_id", u)
    /\ all_posts' = SortByDateDesc(Find(posts_col, u))
    /\ posts' = <<>>
    /\ sel_i' = 1
    /\ pc' = "select"
    /\ UNCHANGED <<store, source, tmp_files, faults, runs, outcome, events,
                   ext, stories, local_images, dl, cur, calls>>

\* lines 204-206
SelectAppendWindow ==
    /\ pc = "select"
    /\ sel_i <= Len(all_posts)
    /\ InWindow(all_posts[sel_i], DaysAgo(now))
    /\ posts' = AppendPost(posts, all_posts[sel_i])
    /\ sel_i' = sel_i + 1
    /\ UNCHANGED <<store, source, tmp_files, ctl, ext, account, all_posts,
                   stories, local_images, dl, cur, analysis_report, calls>>

\* lines 207-208
SelectAppendFloor ==
    /\ pc = "select"
    /\ sel_i <= Len(all_posts)
    /\ ~InWindow(all_posts[sel_i], DaysAgo(now))
    /\ UnderFloor(posts)
    /\ posts' = AppendPost(posts, all_posts[sel_i])
    /\ sel_i' = sel_i + 1
    /\ UNCHANGED <<store, source, tmp_files, ctl, ext, account, all_posts,
                   stories, local_images, dl, cur, analysis_report, calls>>

\* lines 209-210
SelectBreak ==
    /\ pc = "select"
    /\ sel_i <= Len(all_posts)
    /\ ~InWindow(all_posts[sel_i], DaysAgo(now))
    /\ ~UnderFloor(posts)
    /\ pc' = "account_assets"
    /\ UNCHANGED <<store, source, tmp_files, pass, username, now, faults, runs,
                   outcome, events, ext, ana>>

\* line 204: all_posts is exhausted
SelectExhausted ==
    /\ pc = "select"
    /\ sel_i > Len(all_posts)
    /\ pc' = "account_assets"
    /\ UNCHANGED <<store, source, tmp_files, pass, username, now, faults, runs,
                   outcome, events, ext, ana>>

\* lines 218-220: the selected posts' image lists, flattened in post order
RECURSIVE FlattenImages(_)
FlattenImages(ps) ==
    IF ps = <<>> THEN <<>> ELSE ps[1].images \o FlattenImages(Tail(ps))

\* faulty variant of ImagesForPrompt: without the slice of line 221
ImagesForPromptMutNoCap(ps) == FlattenImages(ps)

\* line 221
ImagesForPrompt(ps) == Take(FlattenImages(ps), MAX_IMAGES_ACCOUNT_PROMPT)

\* line 243
PostImages(post) == Take(post.images, MAX_IMAGES_POST_PROMPT)

\* lines 269-271: the selected posts' comment texts, flattened in post order
RECURSIVE AllComments(_)
AllComments(ps) ==
    IF ps = <<>> THEN <<>> ELSE ps[1].comments \o AllComments(Tail(ps))

\* faulty variant of CommentsForPrompt: without the slice of line 275
CommentsForPromptMutNoCap(ps) == AllComments(ps)

\* line 275
CommentsForPrompt(ps) == Take(AllComments(ps), MAX_COMMENTS_ANALYSIS)

\* the fetches of one download_images call that may fail within the budget
FetchOutcomes(image_urls) ==
    {ok \in SUBSET (1..Len(image_urls)) :
        faults + (Len(image_urls) - Cardinality(ok)) <= MaxFaults}

\* a generate_content call: its tier, the post it is about, what it was
\* given, and whether it succeeded
Call(tier, id, handles, texts, ok) ==
    [tier |-> tier, id |-> id, handles |-> handles, texts |-> texts, ok |-> ok]

\* faulty variant of TierResult: "except: pass", the failure leaves no marker
TierResultMutSilent(ok) == IF ok THEN Some("text") ELSE None

\* "Error: {e}" (lines 239, 282) or resp.text (lines 237, 280)
TierResult(ok) == IF ok THEN Some("text") ELSE Some("Error")

\* lines 211-222: stories, images_for_prompt, download_images
MaterializeAccountAssets(ok) ==
    /\ pc = "account_assets"
    /\ ok \in FetchOutcomes(ImagesForPrompt(posts))
    /\ stories' = Find(stories_col, username)
    /\ local_images' = DownloadPaths(tmp_files, ImagesForPrompt(posts), ok)
    /\ dl' = DownloadRecord(tmp_files, ImagesForPrompt(posts), ok)
    /\ tmp_files' = DownloadFiles(tmp_files, ImagesForPrompt(posts), ok)
    /\ faults' = faults + (Len(ImagesForPrompt(posts)) - Cardinality(ok))
    /\ pc' = "account_prompt"
    /\ UNCHANGED <<store, source, pass, username, now, runs, outcome,
                   events, ext, account, all_posts, posts, sel_i, cur,
                   analysis_report, calls>>

\* lines 224-232 with account = None: account.get raises AttributeError,
\* which nothing catches
AccountPromptRaises ==
    /\ pc = "account_prompt"
    /\ account = None
    /\ pc' = "done"
    /\ outcome' = "raised"
    /\ UNCHANGED <<store, source, tmp_files, pass, username, now, faults, runs,
                   events, ext, ana>>

\* lines 224-239
CompleteAccount(ok) ==
    /\ pc = "account_prompt"
    /\ account # None
    /\ ok \/ faults < MaxFaults
    /\ calls' = Append(calls, Call("account", None, local_images, <<>>, ok))
    /\ analysis_report' = [analysis_report EXCEPT !.account_level = TierResult(ok)]
    /\ faults' = IF ok THEN faults ELSE faults + 1
    /\ cur' = 1
    /\ pc' = "post_loop"
    /\ UNCHANGED <<store, source, tmp_files, pass, username, now, runs, outcome,
                   events, ext, account, all_posts, posts, sel_i, stories,
                   local_images, dl>>

\* lines 242-244
MaterializePostAssets(ok) ==
    /\ pc = "post_loop"
    /\ cur <= Len(posts)
    /\ ok \in FetchOutcomes(PostImages(posts[cur]))
    /\ local_images' = DownloadPaths(tmp_files, PostImages(posts[cur]), ok)
    /\ dl' = DownloadRecord(tmp_files, PostImages(posts[cur]), ok)
    /\ tmp_files' = DownloadFiles(tmp_files, PostImages(posts[cur]), ok)
    /\ faults' = faults + (Len(PostImages(posts[cur])) - Cardinality(ok))
    /\ pc' = "post_call"
    /\ UNCHANGED <<store, source, pass, username, now, runs, outcome,
                   events, ext, account, all_posts, posts, sel_i, stories,
                   cur, analysis_report, calls>>

\* lines 256-260 and 262-266
ContentEntry(post, ok) ==
    [type |-> "post", id |-> post._id,
     suggestion |-> IF ok THEN "text" ELSE "Error"]

\* faulty variant of OnPostFailure: the failed post gets no entry
OnPostFailureMutDrop(content_level, post) == content_level

\* what the except branch of lines 261-266 adds to content_level
OnPostFailure(content_level, post) ==
    Append(content_level, ContentEntry(post, FALSE))

\* lines 245-266
CompletePost(ok) ==
    /\ pc = "post_call"
    /\ ok \/ faults < MaxFaults
    /\ calls' = Append(calls, Call("post", Some(posts[cur]._id), local_images, <<>>, ok))
    /\ analysis_report' =
          [analysis_report EXCEPT !.content_level =
              IF ok THEN Append(@, ContentEntry(posts[cur], TRUE))
              ELSE OnPostFailure(@, posts[cur])]
    /\ faults' = IF ok THEN faults ELSE faults + 1
    /\ cur' = cur + 1
    /\ pc' = "post_loop"
    /\ UNCHANGED <<store, source, tmp_files, pass, username, now, runs, outcome,
                   events, ext, account, all_posts, posts, sel_i, stories,
                   local_images, dl>>

\* line 242: posts is exhausted
PostLoopEnd ==
    /\ pc = "post_loop"
    /\ cur > Len(posts)
    /\ pc' = "comments"
    /\ UNCHANGED <<store, source, tmp_files, pass, username, now, faults, runs,
                   outcome, events, ext, ana>>

\* lines 269-272 with all_comments empty
SkipComments ==
    /\ pc = "comments"
    /\ AllComments(posts) = <<>>
    /\ pc' = "save"
    /\ UNCHANGED <<store, source, tmp_files, pass, username, now, faults, runs,
                   outcome, events, ext, ana>>

\* lines 269-282
CompleteComments(ok) ==
    /\ pc = "comments"
    /\ AllComments(posts) # <<>>
    /\ ok \/ faults < MaxFaults
    /\ calls' = Append(calls, Call("comment", None, <<>>,
                                   CommentsForPrompt(posts), ok))
    /\ analysis_report' = [analysis_report EXCEPT !.comment_level = TierResult(ok)]
    /\ faults' = IF ok THEN faults ELSE faults + 1
    /\ pc' = "save"
    /\ UNCHANGED <<store, source, tmp_files, pass, username, now, runs, outcome,
                   events, ext, account, all_posts, posts, sel_i, stories,
                   local_images, dl, cur>>

\* lines 285-292: update_one, then return analysis_report; a failing
\* update_one raises out of the function
SaveAnalysis(ok) ==
    /\ pc = "save"
    /\ ok \/ faults < MaxFaults
    /\ analysis_col' =
          IF ok THEN UpdateOne(analysis_col, "username", username, analysis_report)
          ELSE analysis_col
    /\ faults' = IF ok THEN faults ELSE faults + 1
    /\ events' = IF ok THEN events ELSE events \cup {"upsert_failed"}
    /\ outcome' = IF ok THEN "returned" ELSE "raised"
    /\ pc' = "done"
    /\ UNCHANGED <<accounts_col, posts_col, stories_col, source, tmp_files, pass,
                   username, now, runs, ext, ana>>

(***************************************************************************)
(* The extraction pass, get_and_save_instagram_data (lines 46-153).  The   *)
(* profile source serves one profile; source.posts are its posts,          *)
(* newest first, and source.stories its story items.  A raw post is        *)
(* [mediaid, date, typename, nodes, ncomments]: a GraphSidecar post has    *)
(* nodes sidecar nodes, with display_url <<mediaid, 1>>..<<mediaid, nodes>>; *)
(* any other post has the single image post.url = <<mediaid, 0>>.          *)
(***************************************************************************)
\* line 55
NewSummary == [account |-> None, posts |-> <<>>, stories |-> <<>>]

\* lines 61-73 (the fields read from the profile are those of the one profile)
AccountDoc(u, t) ==
    [_id |-> u, username |-> u, account_extraction_date |-> t]

\* lines 86-94: images, when get_sidecar_nodes() yields nj nodes (and then
\* fails if nj < raw.nodes)
RawImages(raw, nj) ==
    IF raw.typename = "GraphSidecar"
    THEN [k \in 1..nj |-> <<raw.mediaid, k>>]
    ELSE << <<raw.mediaid, 0>> >>

\* faulty variant of EmbeddedComments: without the break of lines 111-112
EmbeddedCommentsMutNoCap(raw, cj) == [k \in 1..cj |-> <<raw.mediaid, k>>]

\* lines 109-120: comments, when get_comments() yields cj comments (and then
\* fails if cj < raw.ncomments)
EmbeddedComments(raw, cj) ==
    [k \in 1..Min(cj, MAX_COMMENTS_ANALYSIS) |-> <<raw.mediaid, k>>]

\* lines 95-107, 109-120
PostDoc(raw, u, t, nj, cj) ==
    [_id |-> raw.mediaid, account_username |-> u, date |-> Some(raw.date),
     comments |-> EmbeddedComments(raw, cj),
     images |-> Take(RawImages(raw, nj), MAX_IMAGES_POST_PROMPT),
     post_extraction_date |-> t]

\* lines 132-142
StoryDoc(item, u, t) ==
    [_id |-> item.mediaid, account_username |-> u,
     publication_date |-> item.date, expiration_date |-> item.date + 1,
     story_extraction_date |-> t]

\* faulty variant of ExtractionStops: either condition ends the loop
ExtractionStopsMutEither(raw, days_ago, added) ==
    raw.date < days_ago \/ added >= MAX_POSTS_ANALYSIS

\* line 84
ExtractionStops(raw, days_ago, added) ==
    raw.date < days_ago /\ added >= MAX_POSTS_ANALYSIS

\* lines 83-125 when nothing fails: the number of posts of raws, from the
\* k-th on, that "for post in profile.get_posts()" persists before it ends,
\* added to the added ones
RECURSIVE ExtractedCount(_, _, _, _)
ExtractedCount(raws, days_ago, k, added) ==
    IF k > Len(raws) THEN added
    ELSE IF ExtractionStops(raws[k], days_ago, added) THEN added
    ELSE ExtractedCount(raws, days_ago, k + 1, added + 1)

\* faulty variant of Handled: the exception leaves the function
HandledMutReraise == "raised"

\* how the pass ends when a call inside the try of line 58 raises: the
\* handler of line 150 (or of line 147) catches the exception and line 153
\* returns summary
Handled == "returned"

\* lines 55-59, 150-153: Profile.from_username raises; the handler of line 150
\* prints and the function returns summary
ProfileLookupFails(u, t) ==
    /\ pc = "idle"
    /\ runs < MaxRuns
    /\ t >= now
    /\ faults < MaxFaults
    /\ pass' = "extraction"
    /\ username' = u
    /\ now' = t
    /\ summary' = NewSummary
    /\ faults' = faults + 1
    /\ events' = {"profile_failed"}
    /\ outcome' = Handled
    /\ pc' = "done"
    /\ UNCHANGED <<store, source, tmp_files, runs, posts_added,
                   post_i, post_doc, story_i, ana>>

\* lines 55-73
ProfileLookup(u, t) ==
    /\ pc = "idle"
    /\ runs < MaxRuns
    /\ t >= now
    /\ pass' = "extraction"
    /\ username' = u
    /\ now' = t
    /\ summary' = NewSummary
    /\ pc' = "upsert_account"
    /\ UNCHANGED <<store, source, tmp_files, faults, runs, outcome,
                   events, posts_added, post_i, post_doc, story_i, ana>>

\* lines 74-82
UpsertAccount(ok) ==
    /\ pc = "upsert_account"
    /\ ok \/ faults < MaxFaults
    /\ IF ok
       THEN /\ accounts_col' = UpdateOne(accounts_col, "_id", username,
                                         AccountDoc(username, now))
            /\ summary' = [summary EXCEPT !.account = Some(AccountDoc(username, now))]
            /\ posts_added' = 0
            /\ post_i' = 1
            /\ pc' = "posts"
            /\ UNCHANGED <<faults, outcome, events>>
       ELSE /\ faults' = faults + 1
            /\ events' = events \cup {"upsert_failed"}
            /\ outcome' = Handled
            /\ pc' = "done"
            /\ UNCHANGED <<accounts_col, summary, posts_added, post_i>>
    /\ UNCHANGED <<posts_col, stories_col, analysis_col, source, tmp_files, pass,
                   username, now, runs, post_doc, story_i, ana>>

\* line 83: profile.get_posts() raises while it is iterated; the handler of
\* line 150 catches it, so the stories are not fetched
PostsListingFails ==
    /\ pc = "posts"
    /\ faults < MaxFaults
    /\ faults' = faults + 1
    /\ events' = events \cup {"posts_failed"}
    /\ outcome' = Handled
    /\ pc' = "done"
    /\ UNCHANGED <<store, source, tmp_files, pass, username, now, runs, ext, ana>>

\* line 83: the posts are exhausted
PostsExhausted ==
    /\ pc = "posts"
    /\ post_i > Len(source.posts)
    /\ story_i' = 1
    /\ events' = events \cup {"stories"}
    /\ pc' = "stories"
    /\ UNCHANGED <<store, source, tmp_files, pass, username, now, faults, runs,
                   outcome, summary, posts_added, post_i, post_doc, ana>>

\* lines 84-85
PostsBreak ==
    /\ pc = "posts"
    /\ post_i <= Len(source.posts)
    /\ ExtractionStops(source.posts[post_i], DaysAgo(now), posts_added)
    /\ story_i' = 1
    /\ events' = events \cup {"stories"}
    /\ pc' = "stories"
    /\ UNCHANGED <<store, source, tmp_files, pass, username, now, faults, runs,
                   outcome, summary, posts_added, post_i, post_doc, ana>>

\* lines 86-120: nj sidecar nodes and cj comments are read before the
\* listing fails (all of them: no failure)
NormalizePost(nj, cj) ==
    /\ pc = "posts"
    /\ post_i <= Len(source.posts)
    /\ ~ExtractionStops(source.posts[post_i], DaysAgo(now), posts_added)
    /\ LET raw == source.posts[post_i]
           failed == (IF raw.typename = "GraphSidecar" /\ nj < raw.nodes
                      THEN {"sidecar_failed"} ELSE {})
                     \cup (IF cj < raw.ncomments THEN {"comments_failed"} ELSE {})
       IN  /\ nj \in 0..raw.nodes
           /\ cj \in 0..raw.ncomments
           /\ raw.typename # "GraphSidecar" => nj = 0
           /\ faults + Cardinality(failed) <= MaxFaults
           /\ faults' = faults + Cardinality(failed)
           /\ events' = events \cup failed
           /\ post_doc' = Some(PostDoc(raw, username, now, nj, cj))
    /\ pc' = "upsert_post"
    /\ UNCHANGED <<store, source, tmp_files, pass, username, now, runs, outcome,
                   summary, posts_added, post_i, story_i, ana>>

\* faulty variant of UpsertPost: the summary is appended to before update_one
\* is called, so a failed upsert leaves the post in the summary
UpsertPostMutRecordFirst(ok) ==
    /\ pc = "upsert_post"
    /\ ok \/ faults < MaxFaults
    /\ summary' = [summary EXCEPT !.posts = Append(@, post_doc[1])]
    /\ IF ok
       THEN /\ posts_col' = UpdateOne(posts_col, "_id", post_doc[1]._id, post_doc[1])
            /\ posts_added' = posts_added + 1
            /\ post_i' = post_i + 1
            /\ pc' = "posts"
            /\ UNCHANGED <<faults, outcome, events>>
       ELSE /\ faults' = faults + 1
            /\ events' = events \cup {"upsert_failed"}
            /\ outcome' = Handled
            /\ pc' = "done"
            /\ UNCHANGED <<posts_col, posts_added, post_i>>
    /\ post_doc' = None
    /\ UNCHANGED <<accounts_col, stories_col, analysis_col, source, tmp_files,
                   pass, username, now, runs, story_i, ana>>

\* lines 121-125
UpsertPost(ok) ==
    /\ pc = "upsert_post"
    /\ ok \/ faults < MaxFaults
    /\ IF ok
       THEN /\ posts_col' = UpdateOne(posts_col, "_id", post_doc[1]._id, post_doc[1])
            /\ summary' = [summary EXCEPT !.posts = Append(@, post_doc[1])]
            /\ posts_added' = posts_added + 1
            /\ post_i' = post_i + 1
            /\ pc' = "posts"
            /\ UNCHANGED <<faults, outcome, events>>
       ELSE /\ faults' = faults + 1
            /\ events' = events \cup {"upsert_failed"}
            /\ outcome' = Handled
            /\ pc' = "done"
            /\ UNCHANGED <<posts_col, summary, posts_added, post_i>>
    /\ post_doc' = None
    /\ UNCHANGED <<accounts_col, stories_col, analysis_col, source, tmp_files,
                   pass, username, now, runs, story_i, ana>>

\* lines 130-131, 147-148, 153: get_stories() or get_items() raises
StoriesListingFails ==
    /\ pc = "stories"
    /\ faults < MaxFaults
    /\ faults' = faults + 1
    /\ events' = events \cup {"stories_failed"}
    /\ outcome' = Handled
    /\ pc' = "done"
    /\ UNCHANGED <<store, source, tmp_files, pass, username, now, runs, ext, ana>>

\* lines 132-148
UpsertStory(ok) ==
    /\ pc = "stories"
    /\ story_i <= Len(source.stories)
    /\ ok \/ faults < MaxFaults
    /\ LET story_doc == StoryDoc(source.stories[story_i], username, now)
       IN  IF ok
           THEN /\ stories_col' = UpdateOne(stories_col, "_id", story_doc._id, story_doc)
                /\ summary' = [summary EXCEPT !.stories = Append(@, story_doc)]
                /\ story_i' = story_i + 1
                /\ UNCHANGED <<pc, faults, outcome, events>>
           ELSE /\ faults' = faults + 1
                /\ events' = events \cup {"upsert_failed"}
                /\ outcome' = Handled
                /\ pc' = "done"
                /\ UNCHANGED <<stories_col, summary, story_i>>
    /\ UNCHANGED <<accounts_col, posts_col, analysis_col, source, tmp_files, pass,
                   username, now, runs, posts_added, post_i, post_doc, ana>>

\* lines 130, 153: the story items are exhausted; return summary
StoriesExhausted ==
    /\ pc = "stories"
    /\ story_i > Len(source.stories)
    /\ outcome' = "returned"
    /\ pc' = "done"
    /\ UNCHANGED <<store, source, tmp_files, pass, username, now, faults, runs,
                   events, ext, ana>>

\* the pass has ended; the next one may start
Return ==
    /\ pc = "done"
    /\ pc' = "idle"
    /\ pass' = "none"
    /\ runs' = runs + 1
    /\ outcome' = "none"
    /\ events' = {}
    /\ summary' = NewSummary
    /\ posts_added' = 0
    /\ post_i' = 1
    /\ post_doc' = None
    /\ story_i' = 1
    /\ account' = None
    /\ all_posts' = <<>>
    /\ posts' = <<>>
    /\ sel_i' = 1
    /\ stories' = <<>>
    /\ local_images' = <<>>
    /\ dl' = NoDownload
    /\ cur' = 1
    /\ analysis_report' = NewReport(username, now)
    /\ calls' = <<>>
    /\ UNCHANGED <<store, source, tmp_files, username, now, faults>>

(***************************************************************************)
(* What the profile source may serve.                                      *)
(***************************************************************************)
\* a carousel has one node more than MAX_IMAGES_POST_PROMPT
CarouselNodes == MAX_IMAGES_POST_PROMPT + 1

CarouselComments == MaxComments

\* a chatty post has one comment more than MAX_COMMENTS_ANALYSIS
ChattyComments == MAX_COMMENTS_ANALYSIS + 1

\* a long profile has two posts more than MAX_POSTS_ANALYSIS
LongPosts == MAX_POSTS_ANALYSIS + 2

PlainPost(id, d) ==
    [mediaid |-> id, date |-> d, typename |-> "GraphImage", nodes |-> 0,
     ncomments |-> 0]

CarouselPost(id, d) ==
    [mediaid |-> id, date |-> d, typename |-> "GraphSidecar", nodes |-> CarouselNodes,
     ncomments |-> CarouselComments]

ChattyPost(id, d) ==
    [mediaid |-> id, date |-> d, typename |-> "GraphSidecar", nodes |-> CarouselNodes,
     ncomments |-> ChattyComments]

\* the day of the k-th newest post of a small profile: MaxDate, MaxDate - 1,
\* ... down to day 0
SmallDate(k) == Max(0, MaxDate + 1 - k)

\* up to MaxSrcPosts posts, newest first, each plain or a carousel
SmallProfiles ==
    UNION {
        {[k \in 1..n |-> IF k \in car THEN CarouselPost(k, SmallDate(k))
                                      ELSE PlainPost(k, SmallDate(k))] :
            car \in SUBSET (1..n)}
        : n \in 0..MaxSrcPosts}

\* more plain posts than MAX_POSTS_ANALYSIS, all of day 0: inside the window
\* on one of the days of Nows and outside it on the other
LongProfiles == {[k \in 1..LongPosts |-> PlainPost(k, 0)]}

\* a carousel, then a carousel with more comments than MAX_COMMENTS_ANALYSIS
ChattyProfiles == {<<CarouselPost(1, 0), ChattyPost(2, 0)>>}

StoryItems == {[k \in 1..n |-> [mediaid |-> k, date |-> MaxDate]] : n \in 0..MaxStories}

Sources ==
    {[posts |-> ps, stories |-> ss] : ps \in SmallProfiles, ss \in StoryItems}
        \cup {[posts |-> ps, stories |-> <<>>] : ps \in LongProfiles \cup ChattyProfiles}

(***************************************************************************)
(* The pipeline: passes of either kind, one after another, on a store that *)
(* starts empty.                                                           *)
(***************************************************************************)
InitLocals ==
    /\ tmp_files = <<>>
    /\ pc = "idle"
    /\ pass = "none"
    /\ username = "alice"
    /\ now = MAX_DAYS_ANALYSIS
    /\ faults = 0
    /\ runs = 0
    /\ outcome = "none"
    /\ events = {}
    /\ summary = NewSummary
    /\ posts_added = 0
    /\ post_i = 1
    /\ post_doc = None
    /\ story_i = 1
    /\ account = None
    /\ all_posts = <<>>
    /\ posts = <<>>
    /\ sel_i = 1
    /\ stories = <<>>
    /\ local_images = <<>>
    /\ dl = NoDownload
    /\ cur = 1
    /\ analysis_report = NewReport("alice", MAX_DAYS_ANALYSIS)
    /\ calls = <<>>

Init ==
    /\ accounts_col = <<>>
    /\ posts_col = <<>>
    /\ stories_col = <<>>
    /\ analysis_col = <<>>
    /\ source \in Sources
    /\ InitLocals

Extraction ==
    \/ \E u \in Usernames, t \in Nows : ProfileLookupFails(u, t)
    \/ \E u \in Usernames, t \in Nows : ProfileLookup(u, t)
    \/ \E ok \in BOOLEAN : UpsertAccount(ok)
    \/ PostsListingFails
    \/ PostsExhausted
    \/ PostsBreak
    \/ \E nj \in 0..CarouselNodes, cj \in 0..ChattyComments :
          NormalizePost(nj, cj)
    \/ \E ok \in BOOLEAN : UpsertPost(ok)
    \/ StoriesListingFails
    \/ \E ok \in BOOLEAN : UpsertStory(ok)
    \/ StoriesExhausted

Selection ==
    \/ SelectAppendWindow
    \/ SelectAppendFloor
    \/ SelectBreak
    \/ SelectExhausted

Analysis ==
    \/ \E u \in Usernames, t \in Nows : AnalysisLoad(u, t)
    \/ Selection
    \/ \E ok \in SUBSET (1..MAX_IMAGES_ACCOUNT_PROMPT) : MaterializeAccountAssets(ok)
    \/ AccountPromptRaises
    \/ \E ok \in BOOLEAN : CompleteAccount(ok)
    \/ \E ok \in SUBSET (1..MAX_IMAGES_POST_PROMPT) : MaterializePostAssets(ok)
    \/ \E ok \in BOOLEAN : CompletePost(ok)
    \/ PostLoopEnd
    \/ SkipComments
    \/ \E ok \in BOOLEAN : CompleteComments(ok)
    \/ \E ok \in BOOLEAN : SaveAnalysis(ok)

Next == Extraction \/ Analysis \/ Return

Spec == Init /\ [][Next]_vars

(***************************************************************************)
(* The selector on its own: the analysis pass up to the end of its         *)
(* selection loop, started on a posts collection that holds up to          *)
(* MaxSelLen posts of the analyzed account, of any days and also without a *)
(* date, in descending or in ascending natural order, next to a post of    *)
(* another account.                                                        *)
(***************************************************************************)
\* the day of the k-th post when cuts[j] posts are newer than day MaxDate - j
\* (cuts is nondecreasing); posts beyond cuts[MaxDate] have no date
CutDate(cuts, k) ==
    LET lvl == Cardinality({j \in 0..MaxDate : cuts[j] < k})
    IN  IF lvl > MaxDate THEN None ELSE Some(MaxDate - lvl)

StoredPost(id, u, date) ==
    [_id |-> id, account_username |-> u, date |-> date, comments |-> <<>>,
     images |-> << <<id, 0>> >>, post_extraction_date |-> MAX_DAYS_ANALYSIS]

SortedStores ==
    UNION {
        {[k \in 1..n |-> StoredPost(k, "alice", CutDate(cuts, k))] :
            cuts \in {c \in [0..MaxDate -> 0..n] :
                        \A j \in 0..(MaxDate - 1) : c[j] <= c[j + 1]}}
        : n \in 0..MaxSelLen}

Reverse(s) == [k \in 1..Len(s) |-> s[Len(s) + 1 - k]]

SelectorStores ==
    UNION {{s, Reverse(s), <<StoredPost(0, "bob", Some(MaxDate))>> \o s} :
            s \in SortedStores}

InitSelector ==
    /\ accounts_col = <<>>
    /\ posts_col \in SelectorStores
    /\ stories_col = <<>>
    /\ analysis_col = <<>>
    /\ source = [posts |-> <<>>, stories |-> <<>>]
    /\ InitLocals

NextSelector ==
    \/ \E u \in Usernames, t \in Nows : AnalysisLoad(u, t)
    \/ Selection

SpecSelector == InitSelector /\ [][NextSelector]_vars

(***************************************************************************)
(* Properties of the selector.                                             *)
(***************************************************************************)
\* the selection loop has ended (posts is not changed after it)
SelectionDone == pass = "analysis" /\ pc # "select"

\* the post was published within MAX_DAYS_ANALYSIS days of now
WithinWindow(post) == post.date # None /\ post.date[1] + MAX_DAYS_ANALYSIS >= now

\* the number of posts of all_posts within the window
InWindowCount == Cardinality({k \in 1..Len(all_posts) : WithinWindow(all_posts[k])})

Range(s) == {s[k] : k \in 1..Len(s)}

\* C1: when the selection loop has ended, at least min(MAX_POSTS_ANALYSIS,
\* total) posts are selected, and every selected post is within the window
\* or one of the MAX_POSTS_ANALYSIS most recent posts of all_posts.
C1_FloorAndWindow ==
    SelectionDone =>
        /\ Len(posts) >= Min(MAX_POSTS_ANALYSIS, Len(all_posts))
        /\ \A k \in 1..Len(posts) :
              \/ WithinWindow(posts[k])
              \/ posts[k] \in Range(Take(all_posts, MAX_POSTS_ANALYSIS))

\* the floor was filled with posts older than the window, and posts remain
C1_Witness ==
    /\ SelectionDone
    /\ Len(posts) = MAX_POSTS_ANALYSIS
    /\ Len(all_posts) > MAX_POSTS_ANALYSIS
    /\ \E k \in 1..Len(posts) : ~WithinWindow(posts[k])
    /\ InWindowCount > 0

\* C2: with I posts within the window out of T, exactly
\* max(I, min(MAX_POSTS_ANALYSIS, T)) posts are selected, all posts within
\* the window among them.
C2_ExactCount ==
    SelectionDone =>
        /\ Len(posts) = Max(InWindowCount, Min(MAX_POSTS_ANALYSIS, Len(all_posts)))
        /\ \A k \in 1..Len(all_posts) :
              WithinWindow(all_posts[k]) => all_posts[k] \in Range(posts)

\* more posts within the window than the floor: all of them and no older one
C2_Witness ==
    /\ SelectionDone
    /\ InWindowCount > MAX_POSTS_ANALYSIS
    /\ Len(all_posts) > InWindowCount
    /\ Len(posts) = InWindowCount

\* C3: during and after the selection loop, posts is a prefix of all_posts.
C3_Prefix ==
    pass = "analysis" =>
        /\ Len(posts) <= Len(all_posts)
        /\ posts = SubSeq(all_posts, 1, Len(posts))

\* the loop stopped at a post, leaving it and a later one out
C3_Witness ==
    /\ SelectionDone
    /\ Len(posts) > 1
    /\ Len(posts) + 1 < Len(all_posts)

(***************************************************************************)
(* Properties of the analysis pass.                                        *)
(***************************************************************************)
\* the analysis pass has reached its report-persisting step (line 285)
ReachedSave ==
    /\ pass = "analysis"
    /\ pc = "save" \/ (pc = "done" /\ account # None)

\* the calls of one tier, in the order they were made
TierCalls(tier) == SelectSeq(calls, LAMBDA c : c.tier = tier)

\* C4: when the analysis pass reaches its report-persisting step,
\* content_level holds exactly one entry per selected post, in the order of
\* selection, each with that post's id, whatever calls succeeded or failed.
C4_ContentLevelPerPost ==
    ReachedSave =>
        /\ Len(analysis_report.content_level) = Len(posts)
        /\ \A k \in 1..Len(posts) :
              /\ analysis_report.content_level[k].type = "post"
              /\ analysis_report.content_level[k].id = posts[k]._id

\* several posts were analyzed, and the call for one of them failed
C4_Witness ==
    /\ ReachedSave
    /\ Len(posts) > 1
    /\ \E k \in 1..Len(posts) : analysis_report.content_level[k].suggestion = "Error"
    /\ \E k \in 1..Len(posts) : analysis_report.content_level[k].suggestion = "text"

\* the result a tier's call leaves in the report
Marker(call) == IF call.ok THEN "text" ELSE "Error"

\* C5: with an account record, whatever call fails, every tier is attempted
\* (the account call, one call per selected post in order, and the comment
\* call when there are comments), a tier's result is the error marker
\* exactly when its own call failed, and the pass ends only by upserting
\* the report.
C5_FailureIsolated ==
    ReachedSave =>
        /\ Len(TierCalls("account")) = 1
        /\ analysis_report.account_level = Some(Marker(TierCalls("account")[1]))
        /\ Len(TierCalls("post")) = Len(posts)
        /\ \A k \in 1..Len(posts) :
              /\ TierCalls("post")[k].id = Some(posts[k]._id)
              /\ k <= Len(analysis_report.content_level)
              /\ analysis_report.content_level[k].suggestion = Marker(TierCalls("post")[k])
        /\ Len(TierCalls("comment")) = (IF AllComments(posts) = <<>> THEN 0 ELSE 1)
        /\ analysis_report.comment_level =
              (IF AllComments(posts) = <<>> THEN None
               ELSE Some(Marker(TierCalls("comment")[1])))
        /\ pc = "done" =>
              \/ "upsert_failed" \in events
              \/ /\ outcome = "returned"
                 /\ \E k \in 1..Len(analysis_col) :
                       analysis_col[k] = analysis_report

\* a call failed, calls after it succeeded, and the report was upserted
C5_Witness ==
    /\ ReachedSave
    /\ pc = "done"
    /\ outcome = "returned"
    /\ \E i \in 1..Len(calls) : ~calls[i].ok /\ i < Len(calls) /\ calls[Len(calls)].ok
    /\ TierCalls("comment") # <<>>
    /\ \E k \in 1..Len(analysis_col) : analysis_col[k] = analysis_report

\* C6: with no account record, the analysis pass does not go on to compose
\* the account prompt and does not end with an unhandled error.
C6_NoAccountAbortsEarly ==
    (pass = "analysis" /\ account = None) =>
        /\ pc # "account_prompt"
        /\ outcome # "raised"

\* C10: when the analysis pass has ended, no temporary file created by
\* download_images is left (every pass that creates files is an analysis
\* pass, so none is left from an earlier pass either).
C10_HandlesReleased ==
    (pass = "analysis" /\ pc = "done") => tmp_files = <<>>

(***************************************************************************)
(* Properties of the extraction pass.                                      *)
(***************************************************************************)
\* C7: no pass returns normally after one of its upserts has failed.
C7_UpsertFailurePropagates ==
    (pc = "done" /\ "upsert_failed" \in events) => outcome = "raised"

\* C8: in an extraction pass that has ended, if listing the posts failed,
\* or listing the comments or sidecar nodes of a post failed and nothing
\* else did, the pass went on to the stories section.
C8_SubsectionFailureContained ==
    (pass = "extraction" /\ pc = "done") =>
        /\ "posts_failed" \in events => "stories" \in events
        /\ ("comments_failed" \in events
              /\ events \cap {"posts_failed", "upsert_failed"} = {})
           => "stories" \in events

\* the step in which the profile lookup fails
ProfileFailedStep == "profile_failed" \notin events /\ "profile_failed" \in events'

\* C9: the step in which the profile lookup fails writes nothing to the
\* store and ends the pass, which returns the empty summary.
C9_LookupFailureStopsPass ==
    /\ []("profile_failed" \in events =>
            /\ pc = "done"
            /\ outcome = "returned"
            /\ summary = NewSummary)
    /\ [][ProfileFailedStep => store' = store]_vars

\* the lookup failed in a pass run on a store that already holds documents
C9_Witness ==
    /\ "profile_failed" \in events
    /\ accounts_col # <<>>
    /\ posts_col # <<>>

(***************************************************************************)
(* Properties of download_images.                                          *)
(***************************************************************************)
\* the j-th position fetched, in the order of the references
NthFetched(ok, j) == CHOOSE k \in ok : Cardinality({x \in ok : x <= k}) = j

\* the positions of a call whose fetch failed
FailedFetches(d) == (1..Len(d.image_urls)) \ d.ok

\* the analysis pass holds the paths the latest download_images call returned
HoldsDownload == pass = "analysis" /\ pc \in {"account_prompt", "post_call"}

\* C11: a download_images call given K references of which F fail to fetch
\* attempts all K and returns exactly K - F paths, each the file of a
\* fetched reference, in the order of the references and with nothing in
\* the place of a failed one; the completion call that follows is made with
\* exactly these paths.
C11_OnePathPerFetched ==
    /\ HoldsDownload =>
          /\ dl.attempts = Len(dl.image_urls)
          /\ Len(local_images) =
                Len(dl.image_urls) - Cardinality(FailedFetches(dl))
          /\ \A j \in 1..Len(local_images) :
                /\ local_images[j] \in 1..Len(tmp_files)
                /\ tmp_files[local_images[j]] =
                      dl.image_urls[NthFetched(dl.ok, j)]
    /\ (pass = "analysis" /\ pc = "post_loop") =>
          /\ Len(TierCalls("post")) = cur - 1
          /\ calls[Len(calls)].handles = local_images

\* the second of a post's three references failed: the third was fetched and
\* the post's completion call was made with the two paths
C11_Witness ==
    /\ pass = "analysis"
    /\ pc = "post_loop"
    /\ cur > 1
    /\ Len(dl.image_urls) = MAX_IMAGES_POST_PROMPT
    /\ dl.ok = {1, 3}
    /\ calls[Len(calls)].tier = "post"
    /\ Len(calls[Len(calls)].handles) = 2

(***************************************************************************)
(* download_images on its own: any caller, any list of references.         *)
(***************************************************************************)
\* one reference more than the larger of the two image caps
MaxUrls == MAX_IMAGES_ACCOUNT_PROMPT + 1

\* the lists of references a caller may pass
UrlLists == {[k \in 1..n |-> <<1, k>>] : n \in 0..MaxUrls}

\* download_images(image_urls), called with nothing on disk
DownloadCall(image_urls, ok) ==
    /\ tmp_files = <<>>
    /\ tmp_files' = DownloadFiles(tmp_files, image_urls, ok)
    /\ local_images' = DownloadPaths(tmp_files, image_urls, ok)
    /\ dl' = DownloadRecord(tmp_files, image_urls, ok)
    /\ UNCHANGED <<store, source, ctl, ext, account, all_posts, posts, sel_i,
                   stories, cur, analysis_report, calls>>

InitDownload ==
    /\ accounts_col = <<>>
    /\ posts_col = <<>>
    /\ stories_col = <<>>
    /\ analysis_col = <<>>
    /\ source = [posts |-> <<>>, stories |-> <<>>]
    /\ InitLocals

NextDownload ==
    \E image_urls \in UrlLists :
        \E ok \in SUBSET (1..Len(image_urls)) : DownloadCall(image_urls, ok)

SpecDownload == InitDownload /\ [][NextDownload]_vars

\* C12: download_images attempts at most as many references as the larger
\* image cap allows, whatever the length of the list it is given.
C12_HardCeiling == dl.attempts <= MAX_IMAGES_ACCOUNT_PROMPT

(***************************************************************************)
(* Properties of the documents the extraction pass writes.                 *)
(***************************************************************************)
\* the post documents of the extraction pass: the one being built, the ones
\* in the summary and the ones stored
ProducedPosts ==
    Range(post_doc) \cup Range(summary.posts) \cup Range(posts_col)

\* C13: every post document the extraction pass produces has at most
\* MAX_IMAGES_POST_PROMPT images and at most MAX_COMMENTS_ANALYSIS comments,
\* whether or not a listing of nodes or comments failed part-way.
C13_PostDocCapped ==
    \A d \in ProducedPosts :
        /\ Len(d.images) <= MAX_IMAGES_POST_PROMPT
        /\ Len(d.comments) <= MAX_COMMENTS_ANALYSIS

\* a stored post whose source has more nodes and more comments than the
\* caps, and holds exactly the caps of both
C13_Witness ==
    \E k \in 1..Len(source.posts) :
        /\ source.posts[k].nodes > MAX_IMAGES_POST_PROMPT
        /\ source.posts[k].ncomments > MAX_COMMENTS_ANALYSIS
        /\ \E d \in Range(posts_col) :
              /\ d._id = source.posts[k].mediaid
              /\ Len(d.images) = MAX_IMAGES_POST_PROMPT
              /\ Len(d.comments) = MAX_COMMENTS_ANALYSIS

(***************************************************************************)
(* Properties of what the prompts are given.                               *)
(***************************************************************************)
\* the sequences of a sequence, one after another
RECURSIVE Concat(_)
Concat(seqs) ==
    IF seqs = <<>> THEN <<>>
    ELSE Concat(SubSeq(seqs, 1, Len(seqs) - 1)) \o seqs[Len(seqs)]

\* the comments of the selected posts, in post order then comment order
SelectedComments == Concat([k \in 1..Len(posts) |-> posts[k].comments])

\* C14: the comment-level call is made only when the selected posts have at
\* least one comment between them; without one no call is made and
\* comment_level stays null.  The call made carries the first
\* min(MAX_COMMENTS_ANALYSIS, total) comments, in post order then comment
\* order.
C14_CommentCallOnlyWithComments ==
    /\ (pass = "analysis" /\ TierCalls("comment") # <<>>) =>
          SelectedComments # <<>>
    /\ ReachedSave =>
          IF SelectedComments = <<>>
          THEN /\ TierCalls("comment") = <<>>
               /\ analysis_report.comment_level = None
          ELSE /\ Len(TierCalls("comment")) = 1
               /\ Len(TierCalls("comment")[1].texts) =
                     Min(MAX_COMMENTS_ANALYSIS, Len(SelectedComments))
               /\ \A j \in 1..Len(TierCalls("comment")[1].texts) :
                     TierCalls("comment")[1].texts[j] = SelectedComments[j]

\* two selected posts with more than MAX_COMMENTS_ANALYSIS comments between
\* them: the call carries comments of both and leaves the last ones out
C14_Witness ==
    /\ ReachedSave
    /\ Len(posts) = 2
    /\ posts[1].comments # <<>>
    /\ Len(SelectedComments) > MAX_COMMENTS_ANALYSIS
    /\ Len(TierCalls("comment")) = 1

(***************************************************************************)
(* Properties of the store across passes.                                  *)
(***************************************************************************)
\* no two documents of col have the same value of field key
UniqueKey(col, key) ==
    \A i, j \in 1..Len(col) : col[i][key] = col[j][key] => i = j

\* the documents of col whose field key equals val
Matching(col, key, val) == {d \in Range(col) : d[key] = val}

EndedUnfailed ==
    pass = "analysis" /\ pc = "done" /\ "upsert_failed" \notin events

\* C16: for an account that is stored and has no stored post and no stored
\* story, the analysis pass makes exactly one completion call, the
\* account-level one, and its report has an empty content_level, a null
\* comment_level and a string as account_level; the pass stores that report
\* and returns it.
C16_AccountOnly ==
    (ReachedSave /\ all_posts = <<>> /\ stories = <<>>) =>
        /\ Len(calls) = 1
        /\ calls[1].tier = "account"
        /\ calls[1].handles = <<>>
        /\ analysis_report.content_level = <<>>
        /\ analysis_report.comment_level = None
        /\ analysis_report.account_level \in {Some("text"), Some("Error")}
        /\ EndedUnfailed =>
              /\ outcome = "returned"
              /\ FindOne(analysis_col, "username", username) =
                    Some(analysis_report)

\* the pass has returned for a stored account with nothing else stored
C16_Witness ==
    /\ EndedUnfailed
    /\ outcome = "returned"
    /\ account # None
    /\ posts_col = <<>>
    /\ stories_col = <<>>
    /\ analysis_col # <<>>

\* the images of the selected posts, in post order then image order
SelectedImages == Concat([k \in 1..Len(posts) |-> posts[k].images])

\* C17: the references download_images is given for the account prompt
\* are exactly the first min(MAX_IMAGES_ACCOUNT_PROMPT, total) of the
\* selected posts' images taken in post order, and the account-level call
\* never receives more than MAX_IMAGES_ACCOUNT_PROMPT paths.
C17_AccountImagesCapped ==
    /\ (pass = "analysis" /\ pc = "account_prompt") =>
          /\ Len(dl.image_urls) =
                Min(MAX_IMAGES_ACCOUNT_PROMPT, Len(SelectedImages))
          /\ \A j \in 1..Len(dl.image_urls) :
                dl.image_urls[j] = SelectedImages[j]
    /\ \A c \in Range(TierCalls("account")) :
          Len(c.handles) <= MAX_IMAGES_ACCOUNT_PROMPT

\* the selected posts have more images than the cap, the first of them
\* several: the account call was made with exactly the cap
C17_Witness ==
    /\ pass = "analysis"
    /\ Len(SelectedImages) > MAX_IMAGES_ACCOUNT_PROMPT
    /\ Len(posts[1].images) > 1
    /\ TierCalls("account") # <<>>
    /\ Len(TierCalls("account")[1].handles) = MAX_IMAGES_ACCOUNT_PROMPT

(***************************************************************************)
(* The stopping rule of extraction and the selection of analysis compared. *)
(***************************************************************************)
\* every post loaded by the analysis pass has a date
AllDated == \A k \in 1..Len(all_posts) : all_posts[k].date # None

\* all_posts as the profile source would serve them
AsServed ==
    [k \in 1..Len(all_posts) |->
        [mediaid |-> all_posts[k]._id, date |-> all_posts[k].date[1]]]

\* C18: on one sequence of dated posts, newest first, and with the same
\* "now", the selection loop of the analysis pass selects exactly the posts
\* the loop of the extraction pass persists: the same prefix.
C18_SamePrefix ==
    (SelectionDone /\ AllDated) =>
        /\ Len(posts) = ExtractedCount(AsServed, DaysAgo(now), 1, 0)
        /\ \A k \in 1..Len(posts) : posts[k] = all_posts[k]

\* both loops stop before the end of the sequence, past the floor
C18_Witness ==
    /\ SelectionDone
    /\ AllDated
    /\ Len(posts) > MAX_POSTS_ANALYSIS
    /\ Len(posts) < Len(all_posts)

(***************************************************************************)
(* The summary of the extraction pass against the store.                   *)
(***************************************************************************)
\* C19: at every point of an extraction pass the summary holds nothing the
\* store does not: summary.account is set only once the account is stored,
\* before any post is recorded, and the posts and stories of the summary
\* are stored, and are those of the source from its first on, in its order.
C19_SummaryBehindStore ==
    pass = "extraction" =>
        /\ summary.account # None =>
              FindOne(accounts_col, "_id", username) = summary.account
        /\ (summary.posts # <<>> \/ summary.stories # <<>>) =>
              summary.account # None
        /\ Len(summary.posts) <= Len(source.posts)
        /\ \A k \in 1..Len(summary.posts) :
              /\ summary.posts[k]._id = source.posts[k].mediaid
              /\ FindOne(posts_col, "_id", source.posts[k].mediaid) =
                    Some(summary.posts[k])
        /\ Len(summary.stories) <= Len(source.stories)
        /\ \A k \in 1..Len(summary.stories) :
              /\ summary.stories[k]._id = source.stories[k].mediaid
              /\ FindOne(stories_col, "_id", source.stories[k].mediaid) =
                    Some(summary.stories[k])

\* the upsert of a post failed after another post had been stored: the
\* summary and the store hold the posts before it and not the post itself
C19_Witness ==
    /\ pass = "extraction"
    /\ "upsert_failed" \in events
    /\ summary.posts # <<>>
    /\ Len(summary.posts) < Len(source.posts)
    /\ Len(posts_col) = Len(summary.posts)

=============================================================================
